---- MODULE Spec2Model ----
(***************************************************************************)
(* FlexiPrice: the rule-based discount engine and the chunked batch        *)
(* recomputation pipeline (backend/app/core/discount_engine.py,            *)
(* backend/app/services/batch_discount_service.py,                         *)
(* backend/app/services/discount_service.py, backend/app/tasks.py).        *)
(*                                                                         *)
(* Money is an integer number of 1/10000 dollar (a hundredth of a cent),   *)
(* so that a base price in cents times a discount in whole percent is      *)
(* exact.  Discount fractions are integers in basis points (1/10000).      *)
(* Time is an integer day counter: datetime.now() and date.today() are     *)
(* both read from the variable now.                                        *)
(***************************************************************************)
EXTENDS Integers, Sequences, FiniteSets, TLC

\* ------------------------------------------------------------------ bounds
NumBatches == 2
MaxRecords == 3
MaxNow == 1
MaxSpawns == 2

\* ------------------------------------------------------- program constants
\* "if price_diff > 0.01:  # More than 1 cent", in 1/10000 dollar
Tolerance == 100
\* write_batch_discounts(discount_data, batch_size=100)
DefaultWriteBatchSize == 100
\* write_batch_discounts(discount_data, batch_size=50) in the sequential run
RunWriteBatchSize == 50
\* self.defaults.get('max_discount', 0.80), in percent
DefaultMaxDiscount == 80
\* self.defaults.get('min_discount', 0.0), in percent
DefaultMinDiscount == 0
\* self.defaults.get('price_floor_multiplier', 0.20), in percent
DefaultFloorMultiplier == 20
\* rule_data.get('priority', 999)
DefaultPriority == 999

\* A nullable DateTime column that holds no value (validTo, expiresAt).
NULL == -1

VARIABLES
    discounts,   \* the batch_discounts table: a sequence, record id = index
    batches,     \* the inventory_batches table joined with its product
    now,         \* the clock: datetime.now() / date.today()
    last,        \* the operation performed by the last step, with its result
    chunks,      \* the chunk jobs spawned by the parallel run
    jobs,        \* the position of each spawned chunk job
    touched,     \* for each batch id, the chunk jobs that read or wrote it
    spawns,      \* the number of parallel runs spawned
    seq,         \* what the sequential run could do from the spawn's store
    pin,         \* the inputs of the partition under check
    engine_instance, \* the shared engine of get_discount_engine
    loader       \* the position of reload_rules / _load_rules on the shared engine

vars == <<discounts, batches, now, last, chunks, jobs, touched, spawns, seq, pin,
          engine_instance, loader>>

\* The shared engine and its loader
engVars == <<engine_instance, loader>>

BatchIds == 1..NumBatches

Abs(x) == IF x < 0 THEN -x ELSE x
Min2(a, b) == IF a <= b THEN a ELSE b
Max2(a, b) == IF a >= b THEN a ELSE b

\* ------------------------------------------------------------ the store

\* The pairs <<lower, higher>> of prices of the model that differ by exactly
\* one cent and for which the binary floating point subtraction
\* abs(float(a) - float(b)) comes out above the double 0.01:
\* abs(40.02 - 40.01) = 0.010000000000005116 > 0.01, while
\* abs(40.01 - 40.00) = 0.00999999999999801 is not.
FloatCentRoundsAbove == { <<400100, 400200>> }

PriceDiffExceeds_twoCents(a, b) == Abs(a - b) > 2 * Tolerance

\* price_diff = abs(float(existing.computedPrice) - float(data["computed_price"]))
\* price_diff > 0.01
PriceDiffExceeds(a, b) ==
    IF Abs(a - b) # Tolerance
    THEN Abs(a - b) > Tolerance
    ELSE <<Min2(a, b), Max2(a, b)>> \in FloatCentRoundsAbove

\* where = {"OR": [{"validTo": None}, {"validTo": {"gt": datetime.now()}}]}
IsActive_onlyFuture(d, t) == d.validTo # NULL /\ d.validTo > t
IsActive(d, t) == d.validTo = NULL \/ d.validTo > t

\* The ids find_first may return for batch b: every row that matches the
\* filter (no order is given, so any matching row can come first).
ActiveIds(store, b, t) ==
    { i \in DOMAIN store : store[i].batchId = b /\ IsActive(store[i], t) }

\* 0 stands for "no row" (find_first returned None).
FindChoices(store, b, t) ==
    IF ActiveIds(store, b, t) = {} THEN {0} ELSE ActiveIds(store, b, t)

\* prisma.batchdiscount.create(data={batchId, computedPrice, discountPct,
\* validFrom: datetime.now(), expiresAt, mlRecommended}); validTo is not given.
NewRecord_closed(store, data, t) ==
    [ id |-> Len(store) + 1,
      batchId |-> data.batch_id,
      computedPrice |-> data.computed_price,
      discountPct |-> data.discount_pct,
      validFrom |-> t,
      validTo |-> t,
      expiresAt |-> data.expires_at,
      mlRecommended |-> data.ml_recommended ]
NewRecord(store, data, t) ==
    [ id |-> Len(store) + 1,
      batchId |-> data.batch_id,
      computedPrice |-> data.computed_price,
      discountPct |-> data.discount_pct,
      validFrom |-> t,
      validTo |-> NULL,
      expiresAt |-> data.expires_at,
      mlRecommended |-> data.ml_recommended ]

\* prisma.batchdiscount.update(where={"id": existing.id},
\*     data={computedPrice, discountPct, expiresAt})
UpdatedRecord_flag(rec, data) ==
    [ rec EXCEPT !.computedPrice = data.computed_price,
                 !.discountPct = data.discount_pct,
                 !.expiresAt = data.expires_at,
                 !.mlRecommended = data.ml_recommended ]
UpdatedRecord(rec, data) ==
    [ rec EXCEPT !.computedPrice = data.computed_price,
                 !.discountPct = data.discount_pct,
                 !.expiresAt = data.expires_at ]

\* find_first returned None
NoRow == [ id |-> 0 ]

\* The row find_first returned when it chose the row with this id
RowOf(store, id) == IF id = 0 THEN NoRow ELSE store[id]

\* One item of write_batch_discounts: the body of "for data in chunk".
\* existing is the row find_first returned, fails says that a store call of
\* the item raised.  The result is the store and the stats increments.
WriteItem(store, data, existing, fails, t) ==
    IF fails
    THEN [ store |-> store, created |-> 0, updated |-> 0, errors |-> 1,
           action |-> "ERROR" ]
    ELSE IF existing.id # 0
    THEN IF PriceDiffExceeds(existing.computedPrice, data.computed_price)
         THEN [ store |-> [ store EXCEPT ![existing.id] = UpdatedRecord(@, data) ],
                created |-> 0, updated |-> 1, errors |-> 0, action |-> "UPDATED" ]
         ELSE [ store |-> store, created |-> 0, updated |-> 0, errors |-> 0,
                action |-> "UNCHANGED" ]
    ELSE [ store |-> Append(store, NewRecord(store, data, t)),
           created |-> 1, updated |-> 0, errors |-> 0, action |-> "CREATED" ]

\* ------------------------------------------------------- the rule engine

\* A condition on one field, as the YAML document gives it: absent, a scalar
\* (exact match), or a mapping with any of the keys lte, gte, gt, lt.
NoCond == [ present |-> FALSE, exact |-> FALSE, eq |-> 0, keys |-> {},
            lte |-> 0, gte |-> 0, gt |-> 0, lt |-> 0 ]
ExactCond(v) == [ NoCond EXCEPT !.present = TRUE, !.exact = TRUE, !.eq = v ]
LteCond(v) == [ NoCond EXCEPT !.present = TRUE, !.keys = {"lte"}, !.lte = v ]
GtCond(v) == [ NoCond EXCEPT !.present = TRUE, !.keys = {"gt"}, !.gt = v ]
LteGtCond(hi, lo) ==
    [ NoCond EXCEPT !.present = TRUE, !.keys = {"lte", "gt"}, !.lte = hi, !.gt = lo ]

CondHolds_strictLte(c, v) ==
    IF ~c.present THEN TRUE
    ELSE IF c.exact THEN v = c.eq
    ELSE /\ ~("lte" \in c.keys /\ v >= c.lte)
         /\ ~("gte" \in c.keys /\ v < c.gte)
         /\ ~("gt" \in c.keys /\ v <= c.gt)
         /\ ~("lt" \in c.keys /\ v >= c.lt)

\* DiscountRule.evaluate, for one of the two fields
CondHolds(c, v) ==
    IF ~c.present THEN TRUE
    ELSE IF c.exact THEN v = c.eq
    ELSE /\ ~("lte" \in c.keys /\ v > c.lte)
         /\ ~("gte" \in c.keys /\ v < c.gte)
         /\ ~("gt" \in c.keys /\ v <= c.gt)
         /\ ~("lt" \in c.keys /\ v >= c.lt)

\* DiscountRule.evaluate(days_to_expiry, quantity)
Evaluate(rule, days_to_expiry, quantity) ==
    /\ CondHolds(rule.condition.days_to_expiry, days_to_expiry)
    /\ CondHolds(rule.condition.quantity, quantity)

InsertByPriority_append(sorted, rule) == Append(sorted, rule)

\* rules.sort(key=lambda r: r.priority): a stable sort, lower priority first
RECURSIVE InsertByPriority(_, _)
InsertByPriority(sorted, rule) ==
    IF sorted = << >> THEN << rule >>
    ELSE IF sorted[Len(sorted)].priority <= rule.priority
    THEN Append(sorted, rule)
    ELSE Append(InsertByPriority(SubSeq(sorted, 1, Len(sorted) - 1), rule),
                sorted[Len(sorted)])

RECURSIVE SortByPriority(_)
SortByPriority(rules) ==
    IF rules = << >> THEN << >>
    ELSE InsertByPriority(SortByPriority(SubSeq(rules, 1, Len(rules) - 1)),
                          rules[Len(rules)])

\* The rule document the engine loads by default.  The values are the ones
\* the engine's tests expect of it: at most 2 days to expiry gives 60%, 3 to
\* 7 days 30%, a quantity above 100 more than the normal discount, Dairy at
\* least the general discount, a maximum of 80% and a floor of 20%.
DefaultConfig ==
    [ defaults |-> [ has |-> {"min_discount", "max_discount", "price_floor_multiplier"},
                     min_discount |-> 0, max_discount |-> 80,
                     price_floor_multiplier |-> 20 ],
      rules |-> <<
        [ name |-> "High inventory", discount |-> 20, priority |-> 3,
          condition |-> [ days_to_expiry |-> LteCond(30), quantity |-> GtCond(100) ] ],
        [ name |-> "Critical expiry (<=2 days)", discount |-> 60, priority |-> 1,
          condition |-> [ days_to_expiry |-> LteCond(2), quantity |-> NoCond ] ],
        [ name |-> "Near expiry (3-7 days)", discount |-> 30, priority |-> 2,
          condition |-> [ days_to_expiry |-> LteGtCond(7, 2), quantity |-> NoCond ] ] >>,
      category_overrides |->
        [ c \in {"Dairy"} |->
            [ has |-> {"rules", "price_floor_multiplier"},
              price_floor_multiplier |-> 25,
              rules |-> <<
                [ name |-> "Dairy critical", discount |-> 70, priority |-> 1,
                  condition |-> [ days_to_expiry |-> LteCond(1),
                                  quantity |-> NoCond ] ] >> ] ] ]

\* DiscountEngine.__init__ and _load_rules: the state of a loaded engine
LoadRules(config) ==
    [ defaults |-> config.defaults,
      rules |-> SortByPriority(config.rules),
      category_overrides |-> config.category_overrides ]

\* get_discount_engine(): the engine loaded from the default document
Engine == LoadRules(DefaultConfig)

\* self.defaults.get(key, default)
DefaultsGet(engine, key, default) ==
    IF key \in engine.defaults.has THEN engine.defaults[key] ELSE default

\* "category and category in self.category_overrides"; no category is ""
HasOverride(engine, category) ==
    category # "" /\ category \in DOMAIN engine.category_overrides

\* DiscountEngine._get_rules_for_category
GetRulesForCategory(engine, category) ==
    IF /\ HasOverride(engine, category)
       /\ "rules" \in engine.category_overrides[category].has
    THEN SortByPriority(engine.category_overrides[category].rules)
    ELSE engine.rules

\* DiscountEngine._get_price_floor_multiplier, in percent
GetPriceFloorMultiplier(engine, category) ==
    IF /\ HasOverride(engine, category)
       /\ "price_floor_multiplier" \in engine.category_overrides[category].has
    THEN engine.category_overrides[category].price_floor_multiplier
    ELSE DefaultsGet(engine, "price_floor_multiplier", DefaultFloorMultiplier)

ClampDiscount_noMax(engine, discount) ==
    Max2(DefaultsGet(engine, "min_discount", DefaultMinDiscount), discount)

\* DiscountEngine._clamp_discount, in percent
ClampDiscount(engine, discount) ==
    Max2(DefaultsGet(engine, "min_discount", DefaultMinDiscount),
         Min2(discount, DefaultsGet(engine, "max_discount", DefaultMaxDiscount)))

FirstMatch_unconditional(rules, days_to_expiry, quantity) ==
    IF rules = << >> THEN 0 ELSE 1

\* "for rule in rules: if rule.evaluate(...): matched_rule = rule; break":
\* the index of the first matching rule, 0 when none matches
FirstMatch(rules, days_to_expiry, quantity) ==
    LET hits == { i \in DOMAIN rules : Evaluate(rules[i], days_to_expiry, quantity) }
    IN IF hits = {} THEN 0 ELSE CHOOSE i \in hits : \A j \in hits : i <= j

PriceTimesPercent_full(base_price, percent) == base_price

\* base_price * fraction, the fraction in percent and the price a whole
\* number of cents
PriceTimesPercent(base_price, percent) == (base_price \div 100) * percent

\* "Decimal(1 - max_discount)": max_discount is a float, so 1 - max_discount
\* is the double nearest to the difference, and Decimal() of it is that
\* double exactly.  For these whole percents the double is below the exact
\* difference (1 - 0.8 is 0.19999999999999996), for those above it, for the
\* others equal to it.
OneMinusRoundsBelow ==
    { 1, 2, 3, 4, 5, 6, 7, 13, 14, 15, 16, 17, 26, 27, 28, 29, 30, 31, 32, 33, 34,
      38, 39, 40, 51, 52, 53, 54, 55, 56, 63, 64, 65, 66, 67, 68, 76, 77, 78, 79,
      80, 81, 88, 89, 90, 91, 92, 93 }

OneMinusRoundsAbove ==
    { 8, 9, 10, 11, 12, 18, 19, 20, 21, 22, 23, 24, 35, 36, 37, 41, 42, 43, 44, 45,
      46, 47, 48, 49, 57, 58, 59, 60, 61, 62, 69, 70, 71, 72, 73, 74, 82, 83, 84,
      85, 86, 87, 94, 95, 96, 97, 98, 99 }

Sign(x) == IF x > 0 THEN 1 ELSE IF x < 0 THEN -1 ELSE 0

OneMinusFloatSign(percent) ==
    IF percent \in OneMinusRoundsBelow THEN -1
    ELSE IF percent \in OneMinusRoundsAbove THEN 1 ELSE 0

\* DiscountEngine.compute_batch_price.  min_price = NULL when not given.
\* ok = FALSE when the call raises: the division by base_price of
\* "(base_price - computed_price) / base_price" with base_price = 0.
\* The price returned is computed_price plus, when ulp is not 0, a
\* difference of that sign far smaller than a cent.
ComputeBatchPrice(engine, base_price, expiry_date, quantity, category, min_price, today) ==
    LET days_to_expiry == expiry_date - today
        rules == GetRulesForCategory(engine, category)
        m == FirstMatch(rules, days_to_expiry, quantity)
        discount_pct == IF m # 0 THEN ClampDiscount(engine, rules[m].discount)
                        ELSE DefaultsGet(engine, "min_discount", DefaultMinDiscount)
        price == IF m # 0 THEN PriceTimesPercent(base_price, 100 - discount_pct)
                 ELSE base_price
        floor == IF min_price = NULL
                 THEN PriceTimesPercent(base_price, GetPriceFloorMultiplier(engine, category))
                 ELSE min_price
        computed_price == Max2(price, floor)
    IN IF days_to_expiry < 0
       THEN [ ok |-> TRUE,
              computed_price |->
                  PriceTimesPercent(base_price,
                      100 - DefaultsGet(engine, "max_discount", DefaultMaxDiscount)),
              discount_pct |-> 100 * DefaultsGet(engine, "max_discount", DefaultMaxDiscount),
              ulp |-> Sign(base_price)
                        * OneMinusFloatSign(
                            DefaultsGet(engine, "max_discount", DefaultMaxDiscount)),
              reason |-> "expired" ]
       ELSE IF base_price = 0
       THEN [ ok |-> FALSE, computed_price |-> 0, discount_pct |-> 0, ulp |-> 0,
              reason |-> "error" ]
       ELSE [ ok |-> TRUE,
              computed_price |-> computed_price,
              discount_pct |-> ((base_price - computed_price) * 100) \div (base_price \div 100),
              ulp |-> 0,
              reason |-> IF m # 0 THEN rules[m].name ELSE "no_rule_matched" ]

\* ------------------------------------------------- the inventory batches

\* The rows an inventory batch can be: base_price in 1/10000 dollar, the
\* expiry date a day number.  A product with base price 0 makes
\* compute_batch_price raise; a batch can have no product.
Profile(k) ==
    CASE k = 1 -> [ hasProduct |-> TRUE, basePrice |-> 1000000, category |-> "",
                    quantity |-> 50, expiryDate |-> 3 ]
      [] k = 2 -> [ hasProduct |-> TRUE, basePrice |-> 1000000, category |-> "Dairy",
                    quantity |-> 150, expiryDate |-> 0 ]
      [] k = 3 -> [ hasProduct |-> TRUE, basePrice |-> 0, category |-> "",
                    quantity |-> 10, expiryDate |-> 2 ]
      [] OTHER -> [ hasProduct |-> FALSE, basePrice |-> 0, category |-> "",
                    quantity |-> 5, expiryDate |-> 2 ]

BatchTables ==
    { [ b \in BatchIds |-> Profile(((b - 1 + offset) % 4) + 1) ] :
        offset \in 0..3 }

\* where={"expiryDate": {"lte": threshold_datetime}, "quantity": {"gt": 0}}
Eligible(bs, today, days_threshold) ==
    { b \in DOMAIN bs : bs[b].expiryDate <= today + days_threshold /\ bs[b].quantity > 0 }

Orderings(S) ==
    { s \in [1..Cardinality(S) -> S] : \A i, j \in 1..Cardinality(S) : s[i] = s[j] => i = j }

\* find_many(..., order={"expiryDate": "asc"}): the eligible rows by expiry
\* date; rows with the same date come in any order.
FetchOrders(bs, today, days_threshold) ==
    { s \in Orderings(Eligible(bs, today, days_threshold)) :
        \A i, j \in DOMAIN s : i < j => bs[s[i]].expiryDate <= bs[s[j]].expiryDate }

\* find_many(..., select={"id": True}) of the parallel run: no order is given
SpawnOrders(bs, today, days_threshold) ==
    Orderings(Eligible(bs, today, days_threshold))

\* ------------------------------------------------------------ chunking

\* "for i in range(0, len(xs), chunk_size)": range raises ValueError for a
\* step of 0 and is empty for a negative step.
RangeRaises(chunk_size) == chunk_size = 0

NumChunks_floor(n, chunk_size) ==
    IF chunk_size > 0 THEN n \div chunk_size ELSE 0
NumChunks(n, chunk_size) ==
    IF chunk_size > 0 THEN (n + chunk_size - 1) \div chunk_size ELSE 0

\* [xs[i:i + chunk_size] for i in range(0, len(xs), chunk_size)]
Chunks_overlapping(xs, chunk_size) ==
    [ k \in 1..NumChunks(Len(xs), chunk_size) |->
        SubSeq(xs, (k - 1) * chunk_size + 1, Min2(k * chunk_size + 1, Len(xs))) ]
Chunks(xs, chunk_size) ==
    [ k \in 1..NumChunks(Len(xs), chunk_size) |->
        SubSeq(xs, (k - 1) * chunk_size + 1, Min2(k * chunk_size, Len(xs))) ]

\* --------------------------------------------- write_batch_discounts

NoWriteStats == [ created |-> 0, updated |-> 0, errors |-> 0 ]

\* What find_first returns for each batch: one of the matching rows.
PickFns(store, t) ==
    { f \in [BatchIds -> 0..Len(store)] : \A b \in BatchIds : f[b] \in FindChoices(store, b, t) }

\* One pass of "for data in chunk: try: ... except Exception:
\* stats['errors'] += 1": st is [store, stats] before the item, the result
\* is [store, stats, failed] after it.
WriteOne(st, d, wfail, pick, t) ==
    CHOOSE nxt \in
        { [ store |-> r.store,
            stats |-> [ created |-> st.stats.created + r.created,
                        updated |-> st.stats.updated + r.updated,
                        errors |-> st.stats.errors + r.errors ],
            failed |-> r.errors > 0 ] :
          r \in { WriteItem(st.store, d, RowOf(st.store, pick[d.batch_id]),
                            d.batch_id \in wfail, t) } } : TRUE

\* "for data in chunk": wfail holds the batch ids whose store calls raise.
RECURSIVE WriteSeq_abort(_, _, _, _, _)
WriteSeq_abort(st, items, wfail, pick, t) ==
    IF items = << >> THEN [ store |-> st.store, stats |-> st.stats ]
    ELSE CHOOSE out \in
           { IF nxt.failed THEN [ store |-> nxt.store, stats |-> nxt.stats ]
             ELSE WriteSeq_abort(nxt, Tail(items), wfail, pick, t) :
             nxt \in { WriteOne(st, Head(items), wfail, pick, t) } } : TRUE

RECURSIVE WriteSeq(_, _, _, _, _)
WriteSeq(st, items, wfail, pick, t) ==
    IF items = << >> THEN [ store |-> st.store, stats |-> st.stats ]
    ELSE CHOOSE out \in
           { WriteSeq(nxt, Tail(items), wfail, pick, t) :
             nxt \in { WriteOne(st, Head(items), wfail, pick, t) } } : TRUE

\* "for i in range(0, len(discount_data), batch_size): chunk = ...; for data in chunk"
RECURSIVE WriteChunks(_, _, _, _, _, _)
WriteChunks(st, chs, k, wfail, pick, t) ==
    IF k > Len(chs) THEN st
    ELSE CHOOSE out \in
           { WriteChunks(nxt, chs, k + 1, wfail, pick, t) :
             nxt \in { WriteSeq(st, chs[k], wfail, pick, t) } } : TRUE

\* BatchDiscountService.write_batch_discounts(discount_data, batch_size)
WriteBatchDiscounts(store, discount_data, batch_size, wfail, pick, t) ==
    WriteChunks([ store |-> store, stats |-> NoWriteStats ],
                Chunks(discount_data, batch_size), 1, wfail, pick, t)

\* ------------------------------------------------ the sequential run

NoStats == [ total_processed |-> 0, discounts_written |-> 0, errors |-> 0,
             chunks_processed |-> 0 ]

\* engine.compute_batch_price(base_price=batch.product.basePrice,
\*     expiry_date=..., quantity=batch.quantity, category=batch.product.category)
\* for every row a batch can be and every day of the model
PriceOf ==
    [ p \in { Profile(k) : k \in 1..4 }, today \in 0..(MaxNow + 1) |->
        ComputeBatchPrice(Engine, p.basePrice, p.expiryDate, p.quantity,
                          p.category, NULL, today) ]

BatchPrice(bs, b, today) == PriceOf[bs[b], today]

\* The entry appended to discount_data for batch b
DiscountData(bs, b, today) ==
    [ batch_id |-> b,
      computed_price |-> BatchPrice(bs, b, today).computed_price,
      discount_pct |-> BatchPrice(bs, b, today).discount_pct,
      expires_at |-> bs[b].expiryDate,
      ml_recommended |-> FALSE ]

\* The batches of a chunk that reach discount_data: those with a product
\* whose price computation does not raise, in the order of the chunk.
Computable(bs, b, today) == bs[b].hasProduct /\ BatchPrice(bs, b, today).ok
ComputeRaises(bs, b, today) == bs[b].hasProduct /\ ~BatchPrice(bs, b, today).ok

RECURSIVE ChunkData(_, _, _)
ChunkData(bs, chunk, today) ==
    IF chunk = << >> THEN << >>
    ELSE IF Computable(bs, Head(chunk), today)
    THEN << DiscountData(bs, Head(chunk), today) >> \o ChunkData(bs, Tail(chunk), today)
    ELSE ChunkData(bs, Tail(chunk), today)

ComputeErrors(bs, chunk, today) ==
    Cardinality({ i \in DOMAIN chunk : ComputeRaises(bs, chunk[i], today) })

\* One pass of "for chunk_start in range(0, len(batches), chunk_size)" in
\* _recompute_discounts_async: the chunk's discount_data is computed, then
\* written if there is any.  st is [store, stats].
RunChunk(st, bs, chunk, wfail, pick, t) ==
    CHOOSE nxt \in
        { IF data = << >>
          THEN [ store |-> st.store,
                 stats |-> [ st.stats EXCEPT
                               !.errors = @ + ComputeErrors(bs, chunk, t) ] ]
          ELSE CHOOSE res \in
                 { [ store |-> w.store,
                     stats |-> [ st.stats EXCEPT
                         !.total_processed = @ + Len(data),
                         !.discounts_written = @ + w.stats.created + w.stats.updated,
                         !.errors = @ + ComputeErrors(bs, chunk, t) + w.stats.errors,
                         !.chunks_processed = @ + 1 ] ] :
                   w \in { WriteBatchDiscounts(st.store, data, RunWriteBatchSize,
                                               wfail, pick, t) } } : TRUE :
          data \in { ChunkData(bs, chunk, t) } } : TRUE

\* The loop "for chunk_start in range(0, len(batches), chunk_size)", from
\* chunk k on.
RECURSIVE RunChunks(_, _, _, _, _, _, _)
RunChunks(st, bs, chs, k, wfail, pick, t) ==
    IF k > Len(chs) THEN st
    ELSE CHOOSE out \in
           { RunChunks(nxt, bs, chs, k + 1, wfail, pick, t) :
             nxt \in { RunChunk(st, bs, chs[k], wfail, pick, t) } } : TRUE

\* _recompute_discounts_async(days_threshold, chunk_size).  fetchFails: the
\* connection or the find_many of the eligible batches raises; order: the
\* rows as find_many returned them.
RecomputeDiscountsAsync(store, bs, t, chunk_size, fetchFails, order, wfail, pick) ==
    IF fetchFails \/ RangeRaises(chunk_size)
    THEN [ result |-> "raised", store |-> store, stats |-> NoStats ]
    ELSE CHOOSE out \in
           { [ result |-> "returned", store |-> st.store, stats |-> st.stats ] :
             st \in { RunChunks([ store |-> store, stats |-> NoStats ], bs,
                                Chunks(order, chunk_size), 1, wfail, pick, t) } } : TRUE

\* recompute_all_discounts: "try: result = ...; return result
\* except Exception as e: logger.error(...); raise"
RecomputeAllDiscounts_swallow(store, bs, t, chunk_size, fetchFails, order, wfail, pick) ==
    LET r == RecomputeDiscountsAsync(store, bs, t, chunk_size, fetchFails, order, wfail, pick)
    IN IF r.result = "raised"
       THEN [ result |-> "returned", store |-> r.store,
              stats |-> [ NoStats EXCEPT !.errors = 1 ] ]
       ELSE r
RecomputeAllDiscounts(store, bs, t, chunk_size, fetchFails, order, wfail, pick) ==
    RecomputeDiscountsAsync(store, bs, t, chunk_size, fetchFails, order, wfail, pick)

\* ------------------------------------------------------------ the state

parVars == <<chunks, jobs, touched, spawns, seq>>

NoPin == [ phase |-> "none" ]

\* No reload_rules is under way
IdleLoader == [ pc |-> "idle" ]

InitCommon ==
    /\ discounts = << >>
    /\ now = 0
    /\ last = [ op |-> "init" ]
    /\ chunks = << >>
    /\ jobs = << >>
    /\ touched = [ b \in BatchIds |-> {} ]
    /\ spawns = 0
    /\ seq = {}
    /\ engine_instance = [ built |-> TRUE, state |-> Engine ]
    /\ loader = IdleLoader

Init ==
    /\ InitCommon
    /\ batches \in BatchTables
    /\ pin = NoPin

\* The clock advances by a day.
Tick ==
    /\ now < MaxNow
    /\ \A j \in DOMAIN jobs : jobs[j].pc = "done"
    /\ now' = now + 1
    /\ last' = [ op |-> "tick" ]
    /\ UNCHANGED <<discounts, batches, parVars, pin, engVars>>

\* ------------------------------------------------ the sequential pipeline

Thresholds == {0, 30}
ChunkSizes == {-1, 0, 1, 2}

\* recompute_all_discounts(days_threshold, chunk_size).  observed says how
\* much of the call the history variable last records.  fetchFails: the
\* find_many raises (no rows are returned); wfail: the batches whose store
\* calls raise; pick: the row find_first returns for each batch.  A run
\* that processes no item (fetch failure, chunk_size < 1) has no write to
\* fail and no row to pick.
RunWith(days_threshold, chunk_size, observed) ==
    \E fetchFails \in BOOLEAN :
    \E order \in IF fetchFails THEN { << >> }
                 ELSE FetchOrders(batches, now, days_threshold) :
    \E wfail \in IF fetchFails \/ chunk_size < 1 THEN { {} }
                 ELSE SUBSET { b \in Eligible(batches, now, days_threshold) :
                                 Computable(batches, b, now) } :
    \E pick \in IF fetchFails \/ chunk_size < 1 THEN { [ b \in BatchIds |-> 0 ] }
                ELSE PickFns(discounts, now) :
    \E r \in { RecomputeAllDiscounts(discounts, batches, now, chunk_size,
                                      fetchFails, order, wfail, pick) } :
        /\ Len(r.store) <= MaxRecords
        /\ discounts' = r.store
        /\ last' = IF observed
                   THEN [ op |-> "run", days_threshold |-> days_threshold,
                          chunk_size |-> chunk_size, fetchFailed |-> fetchFails,
                          wfail |-> wfail, result |-> r.result, stats |-> r.stats ]
                   ELSE [ op |-> "run", result |-> r.result ]
        /\ UNCHANGED <<batches, now, parVars, pin, engVars>>

Run(days_threshold, chunk_size) == RunWith(days_threshold, chunk_size, TRUE)

RunUnobserved(days_threshold, chunk_size) == RunWith(days_threshold, chunk_size, FALSE)

\* compute_single_batch_discount(batch_id): _compute_single_batch_async
ComputeSingle(b) ==
    /\ Len(discounts) < MaxRecords
    /\ IF Computable(batches, b, now)
       THEN /\ discounts' = Append(discounts,
                  NewRecord(discounts,
                            [ DiscountData(batches, b, now) EXCEPT !.expires_at = NULL ],
                            now))
            /\ last' = [ op |-> "single", batch |-> b, result |-> "returned" ]
       ELSE /\ discounts' = discounts
            /\ last' = [ op |-> "single", batch |-> b, result |-> "raised" ]
    /\ UNCHANGED <<batches, now, parVars, pin, engVars>>

\* DiscountService.invalidate_discount(discount_id)
InvalidatedRecord(rec, t) == [ rec EXCEPT !.validTo = t ]

Invalidate(id) ==
    /\ IF id \in DOMAIN discounts
       THEN /\ discounts' = [ discounts EXCEPT ![id] = InvalidatedRecord(@, now) ]
            /\ last' = [ op |-> "invalidate", id |-> id, result |-> TRUE ]
       ELSE /\ discounts' = discounts
            /\ last' = [ op |-> "invalidate", id |-> id, result |-> FALSE ]
    /\ UNCHANGED <<batches, now, parVars, pin, engVars>>

\* "{'lt': datetime.now()}" on a stored date: create_batch stores an expiry
\* date as the midnight that starts its day (datetime.combine(expiry_date,
\* datetime.min.time())), and datetime.now() on day t is later than the
\* midnight that starts day t, so the stored date of day t itself is before
\* now.
MidnightBefore(d, t) == d <= t

\* cleanup_expired_discounts: _cleanup_discounts_async
CleanupStore(store, bs, t) ==
    [ i \in DOMAIN store |->
        IF MidnightBefore(bs[store[i].batchId].expiryDate, t) /\ store[i].validTo = NULL
        THEN InvalidatedRecord(store[i], t)
        ELSE store[i] ]

Cleanup ==
    /\ discounts' = CleanupStore(discounts, batches, now)
    /\ last' = [ op |-> "cleanup",
                 batches_checked |->
                     Cardinality({ b \in BatchIds :
                                     MidnightBefore(batches[b].expiryDate, now) }),
                 discounts_expired |->
                     Cardinality({ i \in DOMAIN discounts :
                                     discounts'[i] # discounts[i] }) ]
    /\ UNCHANGED <<batches, now, parVars, pin, engVars>>

\* BatchDiscountService.expire_old_discounts(days): one update_many over the
\* open records whose expiresAt is before datetime.now() - timedelta(days)
\* (a null expiresAt is not before anything)
ExpireOldStore_delete(store, days, t) ==
    SelectSeq(store, LAMBDA rec :
        ~(rec.expiresAt # NULL /\ MidnightBefore(rec.expiresAt, t - days)
          /\ rec.validTo = NULL))

ExpireOldStore(store, days, t) ==
    [ i \in DOMAIN store |->
        IF store[i].expiresAt # NULL /\ MidnightBefore(store[i].expiresAt, t - days)
           /\ store[i].validTo = NULL
        THEN InvalidatedRecord(store[i], t)
        ELSE store[i] ]

ExpireOldDiscounts(days) ==
    /\ discounts' = ExpireOldStore(discounts, days, now)
    /\ last' = [ op |-> "expire_old", days |-> days ]
    /\ UNCHANGED <<batches, now, parVars, pin, engVars>>

\* BatchDiscountService.cleanup_expired_batch_discounts: one update_many over
\* the open records of the batches whose expiryDate is before now
CleanupExpiredBatchDiscounts ==
    /\ discounts' = CleanupStore(discounts, batches, now)
    /\ last' = [ op |-> "cleanup_batches" ]
    /\ UNCHANGED <<batches, now, parVars, pin, engVars>>

\* Every operation that writes the discount store
Next ==
    \/ \E d \in Thresholds, c \in ChunkSizes : RunUnobserved(d, c)
    \/ \E b \in BatchIds : ComputeSingle(b)
    \/ \E id \in 1..MaxRecords : Invalidate(id)
    \/ Cleanup
    \/ Tick

Spec == Init /\ [][Next]_vars

\* The sequential pipeline and the on-demand computation
NextRun ==
    \/ \E d \in Thresholds, c \in ChunkSizes : Run(d, c)
    \/ \E b \in BatchIds : ComputeSingle(b)
    \/ Tick

SpecRun == Init /\ [][NextRun]_vars

\* ------------------------------------------------------------ apply

\* The decisions apply is called with: 40.01, 40.02 (one cent above) and
\* 40.024 (less than a cent above 40.02, more than a cent above 40.01)
Decisions ==
    { [ computed_price |-> 400100, discount_pct |-> 5999, expires_at |-> 3,
        ml_recommended |-> FALSE ],
      [ computed_price |-> 400200, discount_pct |-> 5998, expires_at |-> 3,
        ml_recommended |-> FALSE ],
      [ computed_price |-> 400240, discount_pct |-> 5997, expires_at |-> 5,
        ml_recommended |-> TRUE ] }

\* The entry of discount_data for batch b with decision d
DataFor(b, d) ==
    [ batch_id |-> b, computed_price |-> d.computed_price,
      discount_pct |-> d.discount_pct, expires_at |-> d.expires_at,
      ml_recommended |-> d.ml_recommended ]

\* write_batch_discounts([data]): apply(batch_id, decision)
Apply(b, d) ==
    \E fails \in BOOLEAN, pick \in PickFns(discounts, now) :
    \E r \in { WriteBatchDiscounts(discounts, << DataFor(b, d) >>,
                                    DefaultWriteBatchSize,
                                    IF fails THEN {b} ELSE {}, pick, now) } :
        /\ Len(r.store) <= MaxRecords
        /\ discounts' = r.store
        /\ last' = [ op |-> "apply", data |-> DataFor(b, d), existing |-> pick[b],
                     failed |-> fails, stats |-> r.stats ]
        /\ UNCHANGED <<batches, now, parVars, pin, engVars>>

InitApply ==
    /\ InitCommon
    /\ batches = [ b \in BatchIds |-> Profile(b) ]
    /\ pin = NoPin

NextApply ==
    \/ \E b \in BatchIds, d \in Decisions : Apply(b, d)
    \/ \E id \in 1..MaxRecords : Invalidate(id)

SpecApply == InitApply /\ [][NextApply]_vars

\* ------------------------------------------------- the parallel pipeline

\* A record without its id and its creation time
RecordView(rec) ==
    [ batchId |-> rec.batchId, computedPrice |-> rec.computedPrice,
      discountPct |-> rec.discountPct, validTo |-> rec.validTo,
      expiresAt |-> rec.expiresAt, mlRecommended |-> rec.mlRecommended ]

\* The records of a store, counted, whatever their ids and creation times
StoreView(store) ==
    [ v \in { RecordView(store[i]) : i \in DOMAIN store } |->
        Cardinality({ i \in DOMAIN store : RecordView(store[i]) = v }) ]

\* What recompute_all_discounts(days_threshold, chunk_size) can leave and
\* report from this store, for each set wfail of batches whose store calls
\* raise
SeqOutcomes(store, bs, t, days_threshold, chunk_size) ==
    UNION { { [ wfail |-> in[1], store |-> StoreView(r.store),
                processed |-> r.stats.total_processed,
                written |-> r.stats.discounts_written,
                errors |-> r.stats.errors ] :
              r \in { RecomputeAllDiscounts(store, bs, t, chunk_size, FALSE,
                                            in[2], in[1], in[3]) } } :
            in \in (SUBSET { b \in Eligible(bs, t, days_threshold) :
                                Computable(bs, b, t) })
                      \X FetchOrders(bs, t, days_threshold)
                      \X PickFns(store, t) }

NoJobStats == [ processed |-> 0, written |-> 0, errors |-> 0 ]

\* recompute_batch_chunk.s(chunk), queued by group(...).apply_async()
QueuedJob(chunk) ==
    [ ids |-> chunk, pc |-> "queued", data |-> << >>, idx |-> 1,
      existing |-> NoRow, stats |-> NoJobStats, wfail |-> {} ]

JobsAtRest == \A j \in DOMAIN jobs : jobs[j].pc \in {"done", "raised"}

\* parallel_recompute_discounts(days_threshold, chunk_size): _spawn_parallel_tasks
Spawn(days_threshold, chunk_size) ==
    /\ spawns < MaxSpawns
    /\ JobsAtRest
    /\ spawns' = spawns + 1
    /\ \E fetchFails \in BOOLEAN, batch_ids \in SpawnOrders(batches, now, days_threshold) :
        IF fetchFails \/ RangeRaises(chunk_size)
        THEN /\ last' = [ op |-> "spawn", result |-> "raised" ]
             /\ UNCHANGED <<chunks, jobs, touched, seq>>
        ELSE /\ chunks' = Chunks(batch_ids, chunk_size)
             /\ seq' = SeqOutcomes(discounts, batches, now, days_threshold, chunk_size)
             /\ jobs' = [ j \in DOMAIN chunks' |-> QueuedJob(chunks'[j]) ]
             /\ touched' = [ b \in BatchIds |-> {} ]
             /\ last' = [ op |-> "spawn", result |-> "spawned",
                          total_batches |-> Len(batch_ids),
                          num_chunks |-> Len(chunks') ]
    /\ UNCHANGED <<discounts, batches, now, pin, engVars>>

\* _process_batch_chunk_async up to "# Batch write": find_many(id in batch_ids)
\* and the loop that computes discount_data
JobFetch(j) ==
    /\ j \in DOMAIN jobs
    /\ jobs[j].pc = "queued"
    /\ \E fetchFails \in BOOLEAN,
          rows \in Orderings({ jobs[j].ids[i] : i \in DOMAIN jobs[j].ids }) :
        IF fetchFails
        THEN /\ jobs' = [ jobs EXCEPT ![j].pc = "raised" ]
             /\ UNCHANGED touched
        ELSE /\ jobs' = [ jobs EXCEPT
                   ![j].data = ChunkData(batches, rows, now),
                   ![j].stats = [ processed |-> Len(ChunkData(batches, rows, now)),
                                  written |-> 0,
                                  errors |-> ComputeErrors(batches, rows, now) ],
                   ![j].pc = IF ChunkData(batches, rows, now) = << >>
                             THEN "done" ELSE "find" ]
             /\ touched' = [ b \in BatchIds |->
                   IF \E i \in DOMAIN rows : rows[i] = b
                   THEN touched[b] \cup {j} ELSE touched[b] ]
    /\ last' = [ op |-> "job" ]
    /\ UNCHANGED <<discounts, batches, now, chunks, spawns, seq, pin, engVars>>

\* write_batch_discounts in a chunk job, item idx: the find_first
JobFind(j) ==
    /\ j \in DOMAIN jobs
    /\ jobs[j].pc = "find"
    /\ \E ex \in FindChoices(discounts, jobs[j].data[jobs[j].idx].batch_id, now) :
        jobs' = [ jobs EXCEPT ![j].existing = RowOf(discounts, ex), ![j].pc = "write" ]
    /\ last' = [ op |-> "job" ]
    /\ UNCHANGED <<discounts, batches, now, chunks, touched, spawns, seq, pin, engVars>>

\* write_batch_discounts in a chunk job, item idx: the update or create on
\* the row find_first returned (a raise of either call, or of find_first,
\* counts one error and leaves the store alone)
JobWrite(j) ==
    /\ j \in DOMAIN jobs
    /\ jobs[j].pc = "write"
    /\ \E fails \in BOOLEAN :
        LET job == jobs[j]
            r == WriteItem(discounts, job.data[job.idx], job.existing, fails, now)
        IN /\ Len(r.store) <= MaxRecords
           /\ discounts' = r.store
           /\ jobs' = [ jobs EXCEPT
                 ![j].stats = [ processed |-> job.stats.processed,
                                written |-> job.stats.written + r.created + r.updated,
                                errors |-> job.stats.errors + r.errors ],
                 ![j].existing = NoRow,
                 ![j].wfail = IF fails THEN job.wfail \cup { job.data[job.idx].batch_id }
                              ELSE job.wfail,
                 ![j].idx = job.idx + 1,
                 ![j].pc = IF job.idx = Len(job.data) THEN "done" ELSE "find" ]
    /\ last' = [ op |-> "job" ]
    /\ UNCHANGED <<batches, now, chunks, touched, spawns, seq, pin, engVars>>

NextPar ==
    \/ \E d \in Thresholds, c \in ChunkSizes : Spawn(d, c)
    \/ \E j \in 1..NumBatches : JobFetch(j)
    \/ \E j \in 1..NumBatches : JobFind(j)
    \/ \E j \in 1..NumBatches : JobWrite(j)
    \/ Tick

SpecPar == Init /\ [][NextPar]_vars

\* The parallel pipeline next to compute_single_batch_discount, which runs
\* only while no chunk job is under way
NextMix ==
    \/ NextPar
    \/ JobsAtRest /\ \E b \in BatchIds : ComputeSingle(b)

SpecMix == Init /\ [][NextMix]_vars

\* ------------------------------------------- overlapping executions

\* recompute_all_discounts(days_threshold) as a task of its own, started by
\* the beat schedule every hour or queued by trigger_discount_recompute:
\* _recompute_discounts_async up to its call of write_batch_discounts.  With
\* the default chunk_size of 100 the eligible batches are one chunk.  The
\* items of its discount_data are then written one by one by JobFind and
\* JobWrite, the find_first and the update or create of
\* write_batch_discounts, while another execution may be under way.
StartRecompute(days_threshold) ==
    /\ spawns < MaxSpawns
    /\ spawns' = spawns + 1
    /\ \E fetchFails \in BOOLEAN, order \in FetchOrders(batches, now, days_threshold) :
        \E data \in { IF fetchFails THEN << >> ELSE ChunkData(batches, order, now) } :
            jobs' = Append(jobs,
                [ QueuedJob(order) EXCEPT
                    !.data = data,
                    !.stats = [ processed |-> Len(data), written |-> 0,
                                errors |-> IF fetchFails THEN 0
                                           ELSE ComputeErrors(batches, order, now) ],
                    !.pc = IF fetchFails THEN "raised"
                           ELSE IF data = << >> THEN "done" ELSE "find" ])
    /\ last' = [ op |-> "start", days_threshold |-> days_threshold ]
    /\ UNCHANGED <<discounts, batches, now, chunks, touched, seq, pin, engVars>>

InitOverlap ==
    /\ InitCommon
    /\ batches = [ b \in BatchIds |-> Profile(b) ]
    /\ pin = NoPin

\* The scheduled run and a triggered run, their store calls interleaved
NextOverlap ==
    \/ \E d \in Thresholds : StartRecompute(d)
    \/ \E j \in 1..MaxSpawns : JobFind(j)
    \/ \E j \in 1..MaxSpawns : JobWrite(j)

SpecOverlap == InitOverlap /\ [][NextOverlap]_vars

\* ------------------------------------------------- reloading the rules

\* A rule document different from the default one in its defaults, its rules
\* and its category overrides
AltConfig ==
    [ defaults |-> [ has |-> {"min_discount", "max_discount"},
                     min_discount |-> 5, max_discount |-> 50,
                     price_floor_multiplier |-> 0 ],
      rules |-> <<
        [ name |-> "Week out", discount |-> 40, priority |-> 2,
          condition |-> [ days_to_expiry |-> LteCond(7), quantity |-> NoCond ] ],
        [ name |-> "Last day", discount |-> 90, priority |-> 1,
          condition |-> [ days_to_expiry |-> LteCond(1), quantity |-> NoCond ] ] >>,
      category_overrides |->
        [ c \in {"Dairy"} |->
            [ has |-> {"price_floor_multiplier"},
              price_floor_multiplier |-> 30,
              rules |-> << >> ] ] ]

\* What the file at config_path can hold when it is read: a document that
\* loads, a file that cannot be opened or parsed (readable = FALSE), and a
\* document whose rule number bad lacks a required key (bad = 0: none)
Documents ==
    { [ readable |-> TRUE, bad |-> 0, config |-> DefaultConfig ],
      [ readable |-> TRUE, bad |-> 0, config |-> AltConfig ],
      [ readable |-> TRUE, bad |-> 2, config |-> AltConfig ],
      [ readable |-> FALSE, bad |-> 0, config |-> DefaultConfig ] }

Loadable(doc) == doc.readable /\ doc.bad = 0

\* The rule sets of the documents that load
CompleteSets == { LoadRules(doc.config) : doc \in { d \in Documents : Loadable(d) } }

\* self.defaults = {} / self.defaults.clear()
EmptyDefaults ==
    [ has |-> {}, min_discount |-> 0, max_discount |-> 0, price_floor_multiplier |-> 0 ]

\* self.category_overrides = {} / self.category_overrides.clear()
EmptyOverrides == [ c \in {} |-> EmptyDefaults ]

\* get_discount_engine() with _engine_instance None: DiscountEngine() is
\* constructed and, unless _load_rules raises, assigned to _engine_instance
NoEngine ==
    [ built |-> FALSE,
      state |-> [ defaults |-> EmptyDefaults, rules |-> << >>,
                  category_overrides |-> EmptyOverrides ] ]

Construct(doc) ==
    /\ ~engine_instance.built
    /\ IF Loadable(doc)
       THEN /\ engine_instance' = [ built |-> TRUE, state |-> LoadRules(doc.config) ]
            /\ last' = [ op |-> "construct", result |-> "returned" ]
       ELSE /\ engine_instance' = engine_instance
            /\ last' = [ op |-> "construct", result |-> "raised" ]
    /\ UNCHANGED <<discounts, batches, now, parVars, pin, loader>>

\* reload_rules on the shared engine, "self.rules.clear()"; doc is what the
\* file holds when _load_rules reads it
ReloadStart(doc) ==
    /\ engine_instance.built
    /\ loader.pc = "idle"
    /\ engine_instance' = [ engine_instance EXCEPT !.state.rules = << >> ]
    /\ loader' = [ pc |-> "clear_defaults", doc |-> doc, idx |-> 1,
                   old |-> engine_instance.state ]
    /\ last' = [ op |-> "reload", result |-> "started" ]
    /\ UNCHANGED <<discounts, batches, now, parVars, pin>>

\* "self.defaults.clear()"
ReloadClearDefaults ==
    /\ loader.pc = "clear_defaults"
    /\ engine_instance' = [ engine_instance EXCEPT !.state.defaults = EmptyDefaults ]
    /\ loader' = [ loader EXCEPT !.pc = "clear_overrides" ]
    /\ last' = [ op |-> "reload", result |-> "running" ]
    /\ UNCHANGED <<discounts, batches, now, parVars, pin>>

\* "self.category_overrides.clear()"
ReloadClearOverrides ==
    /\ loader.pc = "clear_overrides"
    /\ engine_instance' =
          [ engine_instance EXCEPT !.state.category_overrides = EmptyOverrides ]
    /\ loader' = [ loader EXCEPT !.pc = "open" ]
    /\ last' = [ op |-> "reload", result |-> "running" ]
    /\ UNCHANGED <<discounts, batches, now, parVars, pin>>

\* _load_rules: open, yaml.safe_load and "self.defaults = config.get(...)";
\* a file that cannot be read raises out of reload_rules
LoadDefaults ==
    /\ loader.pc = "open"
    /\ IF loader.doc.readable
       THEN /\ engine_instance' =
                  [ engine_instance EXCEPT !.state.defaults = loader.doc.config.defaults ]
            /\ loader' = [ loader EXCEPT !.pc = "rules" ]
            /\ last' = [ op |-> "reload", result |-> "running" ]
       ELSE /\ engine_instance' = engine_instance
            /\ loader' = IdleLoader
            /\ last' = [ op |-> "reload", result |-> "raised" ]
    /\ UNCHANGED <<discounts, batches, now, parVars, pin>>

\* _load_rules: one turn of "for rule_data in config.get('rules', [])", then
\* the sort; rule_data['name'] of a rule without the key raises
LoadRule ==
    /\ loader.pc = "rules"
    /\ IF loader.idx > Len(loader.doc.config.rules)
       THEN /\ engine_instance' =
                  [ engine_instance EXCEPT !.state.rules = SortByPriority(@) ]
            /\ loader' = [ loader EXCEPT !.pc = "overrides" ]
            /\ last' = [ op |-> "reload", result |-> "running" ]
       ELSE IF loader.idx = loader.doc.bad
       THEN /\ engine_instance' = engine_instance
            /\ loader' = IdleLoader
            /\ last' = [ op |-> "reload", result |-> "raised" ]
       ELSE /\ engine_instance' =
                  [ engine_instance EXCEPT
                      !.state.rules = Append(@, loader.doc.config.rules[loader.idx]) ]
            /\ loader' = [ loader EXCEPT !.idx = @ + 1 ]
            /\ last' = [ op |-> "reload", result |-> "running" ]
    /\ UNCHANGED <<discounts, batches, now, parVars, pin>>

\* _load_rules: "self.category_overrides = config.get(...)"; reload_rules
\* returns
LoadOverrides ==
    /\ loader.pc = "overrides"
    /\ engine_instance' =
          [ engine_instance EXCEPT
              !.state.category_overrides = loader.doc.config.category_overrides ]
    /\ loader' = IdleLoader
    /\ last' = [ op |-> "reload", result |-> "returned" ]
    /\ UNCHANGED <<discounts, batches, now, parVars, pin>>

\* The batches a computation prices: base price 100.00, no min_price
ComputeInputs ==
    { [ expiry_date |-> e, quantity |-> q, category |-> c ] :
        e \in {0, 5}, q \in {50, 150}, c \in {"", "Dairy"} }

\* engine = get_discount_engine(); engine.compute_batch_price(...) by a task
\* that runs next to the reload.  seen is the rule set the call reads.
Compute(in) ==
    /\ engine_instance.built
    /\ last' = [ op |-> "compute",
                 seen |-> engine_instance.state,
                 reloading |-> loader.pc # "idle",
                 loadable |-> loader.pc # "idle" /\ Loadable(loader.doc),
                 old |-> IF loader.pc # "idle" THEN loader.old
                         ELSE engine_instance.state,
                 new |-> IF loader.pc # "idle" THEN LoadRules(loader.doc.config)
                         ELSE engine_instance.state,
                 out |-> ComputeBatchPrice(engine_instance.state, 1000000,
                                           in.expiry_date, in.quantity,
                                           in.category, NULL, now) ]
    /\ UNCHANGED <<discounts, batches, now, parVars, pin, engVars>>

InitEngine ==
    /\ discounts = << >>
    /\ now = 0
    /\ last = [ op |-> "init" ]
    /\ chunks = << >>
    /\ jobs = << >>
    /\ touched = [ b \in BatchIds |-> {} ]
    /\ spawns = 0
    /\ seq = {}
    /\ batches = [ b \in BatchIds |-> Profile(b) ]
    /\ pin = NoPin
    /\ engine_instance = NoEngine
    /\ loader = IdleLoader

NextEngine ==
    \/ \E doc \in Documents : Construct(doc)
    \/ \E doc \in Documents : ReloadStart(doc)
    \/ ReloadClearDefaults
    \/ ReloadClearOverrides
    \/ LoadDefaults
    \/ LoadRule
    \/ LoadOverrides
    \/ \E in \in ComputeInputs : Compute(in)

SpecEngine == InitEngine /\ [][NextEngine]_vars

\* ------------------------------------------------- pricing one batch

\* A rule document with no keys: every value is the code's fallback
NoConfig ==
    [ defaults |-> EmptyDefaults, rules |-> << >>, category_overrides |-> EmptyOverrides ]

\* A rule document with two general rules of the same priority, and a Dairy
\* override with rules of its own, which do not cover the days the general
\* rules cover
OverrideConfig ==
    [ defaults |-> [ has |-> {"max_discount"},
                     min_discount |-> 0, max_discount |-> 80,
                     price_floor_multiplier |-> 0 ],
      rules |-> <<
        [ name |-> "Week out", discount |-> 40, priority |-> 1,
          condition |-> [ days_to_expiry |-> LteCond(7), quantity |-> NoCond ] ],
        [ name |-> "Fortnight out", discount |-> 10, priority |-> 1,
          condition |-> [ days_to_expiry |-> LteCond(14), quantity |-> NoCond ] ] >>,
      category_overrides |->
        [ c \in {"Dairy"} |->
            [ has |-> {"rules"},
              price_floor_multiplier |-> 0,
              rules |-> <<
                [ name |-> "Dairy last day", discount |-> 70, priority |-> 1,
                  condition |-> [ days_to_expiry |-> LteCond(1),
                                  quantity |-> NoCond ] ] >> ] ] ]

PriceConfigs == { DefaultConfig, AltConfig, NoConfig, OverrideConfig }

\* The calls of compute_batch_price under check: today is day 0, so
\* expiry_date is the number of days to expiry; min_price NULL is "not given"
PriceInputs ==
    { [ phase |-> "price_input", config |-> cfg, base_price |-> bp,
        expiry_date |-> e, quantity |-> q, category |-> c, min_price |-> mp,
        out |-> [ ok |-> FALSE, computed_price |-> 0, discount_pct |-> 0,
                  ulp |-> 0, reason |-> "" ] ] :
        cfg \in PriceConfigs, bp \in {1000000, 250000, 0, -250000},
        e \in {-3, 0, 2, 5, 100},
        q \in {50, 150}, c \in {"", "Dairy"}, mp \in {NULL, 100000} }

InitPrice ==
    /\ InitCommon
    /\ batches = [ b \in BatchIds |-> Profile(b) ]
    /\ pin \in PriceInputs

\* engine.compute_batch_price(base_price, expiry_date, quantity, category,
\* min_price) on an engine loaded from config
Price ==
    /\ pin.phase = "price_input"
    /\ pin' = [ pin EXCEPT
           !.phase = "priced",
           !.out = ComputeBatchPrice(LoadRules(pin.config), pin.base_price,
                                     pin.expiry_date, pin.quantity, pin.category,
                                     pin.min_price, 0) ]
    /\ UNCHANGED <<discounts, batches, now, last, parVars, engVars>>

SpecPrice == InitPrice /\ [][Price]_vars

\* ------------------------------------------------- evaluating one rule

\* The conditions a rule can have on days_to_expiry: none, a scalar, and a
\* dict with any of the keys lte, gte, gt, lt
DaysConds ==
    { NoCond, ExactCond(2) } \cup
    { [ NoCond EXCEPT !.present = TRUE, !.keys = ks,
                      !.lte = 5, !.gte = 0, !.gt = -1, !.lt = 7 ] :
        ks \in SUBSET {"lte", "gte", "gt", "lt"} }

\* The conditions a rule can have on quantity
QuantityConds == { NoCond, ExactCond(50), GtCond(100), LteGtCond(100, 50) }

\* The calls of DiscountRule.evaluate under check
EvalInputs ==
    { [ phase |-> "eval_input",
        rule |-> [ name |-> "rule", discount |-> 30, priority |-> 1,
                   condition |-> [ days_to_expiry |-> dc, quantity |-> qc ] ],
        days_to_expiry |-> d, quantity |-> q, result |-> FALSE ] :
        dc \in DaysConds, qc \in QuantityConds, d \in -2..8, q \in {50, 100, 101} }

InitEval ==
    /\ InitCommon
    /\ batches = [ b \in BatchIds |-> Profile(b) ]
    /\ pin \in EvalInputs

\* rule.evaluate(days_to_expiry, quantity)
EvaluateRule ==
    /\ pin.phase = "eval_input"
    /\ pin' = [ pin EXCEPT
           !.phase = "evaluated",
           !.result = Evaluate(pin.rule, pin.days_to_expiry, pin.quantity) ]
    /\ UNCHANGED <<discounts, batches, now, last, parVars, engVars>>

SpecEval == InitEval /\ [][EvaluateRule]_vars

\* The days arguments of expire_old_discounts
ExpireDays == {0, 1}

\* Every operation of the pricing core, with a batch that expires on day 0
\* and a batch whose price cannot be computed: the sequential run (whose
\* writes are write_batch_discounts, as are the chunk jobs'),
\* the parallel run and its chunk jobs, invalidate and the three expiry
\* sweeps. Both runs look 30 days ahead; the chunk jobs of a parallel run
\* are not interleaved with the other operations.
InitAll ==
    /\ InitCommon
    /\ batches = [ b \in BatchIds |-> Profile(b + 1) ]
    /\ pin = NoPin

NextAll ==
    \/ Spawn(30, 1)
    \/ \E j \in 1..NumBatches : JobFetch(j)
    \/ \E j \in 1..NumBatches : JobFind(j)
    \/ \E j \in 1..NumBatches : JobWrite(j)
    \/ Tick
    \/ JobsAtRest /\ RunUnobserved(30, 2)
    \/ JobsAtRest /\ \E id \in 1..MaxRecords : Invalidate(id)
    \/ JobsAtRest /\ Cleanup
    \/ JobsAtRest /\ \E days \in ExpireDays : ExpireOldDiscounts(days)
    \/ JobsAtRest /\ CleanupExpiredBatchDiscounts

SpecAll == InitAll /\ [][NextAll]_vars

\* ------------------------------------------------- chunking on its own

PartIds == 1..(NumBatches + 1)

PartSizes == (0 - 2)..(NumBatches + 2)

PartInputs == UNION { Orderings(S) : S \in SUBSET PartIds }

InitPart ==
    /\ InitCommon
    /\ batches = [ b \in BatchIds |-> Profile(b) ]
    /\ pin \in { [ phase |-> "input", xs |-> xs, chunk_size |-> c, raised |-> FALSE,
                   chunks |-> << >> ] : xs \in PartInputs, c \in PartSizes }

\* chunks = [batch_ids[i:i + chunk_size] for i in range(0, total_batches, chunk_size)]
Partition ==
    /\ pin.phase = "input"
    /\ pin' = [ pin EXCEPT
           !.phase = "done",
           !.raised = RangeRaises(pin.chunk_size),
           !.chunks = IF RangeRaises(pin.chunk_size) THEN << >>
                      ELSE Chunks(pin.xs, pin.chunk_size) ]
    /\ UNCHANGED <<discounts, batches, now, last, parVars, engVars>>

SpecPart == InitPart /\ [][Partition]_vars

\* ------------------------------------------------------------ properties

\* The records of batch b that have no end time
OpenIds(store, b) ==
    { i \in DOMAIN store : store[i].batchId = b /\ store[i].validTo = NULL }

\* The records of batch b that find_first can return at time t
LiveIds(store, b, t) ==
    { i \in DOMAIN store :
        store[i].batchId = b /\ (store[i].validTo = NULL \/ store[i].validTo > t) }

\* C1: after any sequence of apply calls from an empty store, every batch
\* has zero or one record without an end time.
ApplyKeepsAtMostOneActive ==
    \A b \in BatchIds : Cardinality(OpenIds(discounts, b)) \in {0, 1}

\* C1 happens: an apply found the batch's record and updated it, and the
\* batch also has a closed record from an earlier apply.
ApplyKeepsAtMostOneActiveWitness ==
    /\ last.op = "apply"
    /\ last.stats.updated = 1
    /\ Cardinality(OpenIds(discounts, last.data.batch_id)) = 1
    /\ \E i \in DOMAIN discounts :
          discounts[i].batchId = last.data.batch_id /\ discounts[i].validTo # NULL

\* C2: whatever sequence of pipeline runs, on-demand computations,
\* invalidations and cleanups was performed, every batch has at most one
\* record without an end time.
AtMostOneActiveUnderAllWriters ==
    \A b \in BatchIds : Cardinality(OpenIds(discounts, b)) <= 1

\* C3: a second run with the same parameters, right after a first one, with
\* no failure in either, writes nothing and leaves the store as it was.
SecondRunWritesNothing ==
    [][ ( /\ last.op = "run" /\ last'.op = "run"
          /\ last.result = "returned" /\ last'.result = "returned"
          /\ last.days_threshold = last'.days_threshold
          /\ last.chunk_size = last'.chunk_size
          /\ last.stats.errors = 0 /\ last'.stats.errors = 0 )
        => ( /\ discounts' = discounts
             /\ last'.stats.discounts_written = 0 ) ]_vars

\* concatenation of the chunks in order
RECURSIVE Concat(_)
Concat(chs) == IF chs = << >> THEN << >> ELSE Head(chs) \o Concat(Tail(chs))

\* C4: for every list and every chunk_size for which chunking does not
\* raise, the chunks are consecutive slices of at most chunk_size elements,
\* in order, pairwise disjoint, whose union is the input.
PartitionCoversInput ==
    (pin.phase = "done" /\ ~pin.raised) =>
        /\ \A k \in DOMAIN pin.chunks : Len(pin.chunks[k]) <= pin.chunk_size
        /\ Concat(pin.chunks) = pin.xs
        /\ UNION { { pin.chunks[k][i] : i \in DOMAIN pin.chunks[k] } :
                     k \in DOMAIN pin.chunks }
             = { pin.xs[i] : i \in DOMAIN pin.xs }
        /\ \A k1, k2 \in DOMAIN pin.chunks :
              k1 # k2 =>
                  { pin.chunks[k1][i] : i \in DOMAIN pin.chunks[k1] }
                    \cap { pin.chunks[k2][i] : i \in DOMAIN pin.chunks[k2] } = {}

\* C5: while the chunk jobs of one parallel run execute concurrently, no
\* batch is processed by two jobs, and every batch has at most one record
\* without an end time.
ChunkJobsNeverShareABatch ==
    /\ \A b \in BatchIds : Cardinality(touched[b]) <= 1
    /\ \A b \in BatchIds : Cardinality(OpenIds(discounts, b)) <= 1

\* C5 happens: two chunk jobs are between their find and their write at
\* the same time, and a job has already written a record.
ChunkJobsNeverShareABatchWitness ==
    /\ \E j1, j2 \in DOMAIN jobs :
          j1 # j2 /\ jobs[j1].pc = "write" /\ jobs[j2].pc = "write"
    /\ discounts # << >>

\* C6: in a run that fetched its batches, a failing item counts one error
\* and stops nothing: the run returns its stats, the errors are the items
\* that failed, and every other eligible item has its decision applied.
RunIsolatesItemFailures ==
    (last.op = "run" /\ ~last.fetchFailed /\ last.chunk_size >= 1) =>
        LET elig == Eligible(batches, now, last.days_threshold)
            good == { b \in elig : Computable(batches, b, now) }
            bad == { b \in elig : ComputeRaises(batches, b, now) }
        IN /\ last.result = "returned"
           /\ last.stats.errors = Cardinality(bad) + Cardinality(last.wfail)
           /\ last.stats.total_processed = Cardinality(good)
           /\ \A b \in good \ last.wfail :
                 \E i \in LiveIds(discounts, b, now) :
                     Abs(discounts[i].computedPrice
                           - BatchPrice(batches, b, now).computed_price) <= Tolerance

\* C6 happens: a run returned with an item that failed and an item that
\* was written.
RunIsolatesItemFailuresWitness ==
    /\ last.op = "run"
    /\ last.result = "returned"
    /\ last.stats.errors >= 1
    /\ last.stats.discounts_written >= 1

\* C7: when the initial fetch of a run fails, the run raises, returns no
\* stats and leaves the store as it was.
RunAbortsOnFetchFailure ==
    [][ (last'.op = "run" /\ last'.fetchFailed)
        => ( /\ last'.result = "raised"
             /\ last'.stats = NoStats
             /\ discounts' = discounts ) ]_vars

\* C7 happens: a run whose fetch failed, on a store that holds records.
RunAbortsOnFetchFailureWitness ==
    /\ last.op = "run"
    /\ last.fetchFailed
    /\ discounts # << >>

\* C8: an apply that succeeds on a batch with no active record appends
\* exactly one record, with the batch, the decision's price and fraction,
\* valid_from = now and no end time, counts it as created, and changes no
\* other record.
ApplyCreatesWhenNoActive ==
    [][ ( /\ last'.op = "apply" /\ ~last'.failed
          /\ LiveIds(discounts, last'.data.batch_id, now) = {} )
        => ( /\ discounts' = Append(discounts,
                  [ id |-> Len(discounts) + 1,
                    batchId |-> last'.data.batch_id,
                    computedPrice |-> last'.data.computed_price,
                    discountPct |-> last'.data.discount_pct,
                    validFrom |-> now,
                    validTo |-> NULL,
                    expiresAt |-> last'.data.expires_at,
                    mlRecommended |-> last'.data.ml_recommended ])
             /\ last'.stats = [ created |-> 1, updated |-> 0, errors |-> 0 ] ) ]_vars

\* C8 happens: an apply created a record for a batch whose earlier record
\* had been closed.
ApplyCreatesWhenNoActiveWitness ==
    /\ last.op = "apply"
    /\ last.stats.created = 1
    /\ \E i \in DOMAIN discounts :
          discounts[i].batchId = last.data.batch_id /\ discounts[i].validTo # NULL

\* C9: an apply that succeeds on a batch whose active record's price is
\* within 0.01 of the decision's price writes nothing.
ApplyWithinToleranceWritesNothing ==
    [][ ( /\ last'.op = "apply" /\ ~last'.failed
          /\ last'.existing # 0
          /\ Abs(discounts[last'.existing].computedPrice
                   - last'.data.computed_price) <= Tolerance )
        => ( /\ discounts' = discounts
             /\ last'.stats.created = 0
             /\ last'.stats.updated = 0 ) ]_vars

\* C10 as stated: an apply that succeeds on a batch whose active record's
\* price differs from the decision's by more than 0.01 changes only that
\* record's price and fraction.
ApplyUpdatesOnlyPriceAndFraction ==
    [][ ( /\ last'.op = "apply" /\ ~last'.failed
          /\ last'.existing # 0
          /\ Abs(discounts[last'.existing].computedPrice
                   - last'.data.computed_price) > Tolerance )
        => discounts' = [ discounts EXCEPT ![last'.existing] =
              [ @ EXCEPT !.computedPrice = last'.data.computed_price,
                         !.discountPct = last'.data.discount_pct ] ] ]_vars

\* C10 amended: an apply that succeeds on a batch whose active record's
\* price differs from the decision's by more than 0.01 changes that
\* record's price, fraction and expires_at, and nothing else; no record
\* is created.
ApplyUpdatesPriceFractionAndExpiry ==
    [][ ( /\ last'.op = "apply" /\ ~last'.failed
          /\ last'.existing # 0
          /\ Abs(discounts[last'.existing].computedPrice
                   - last'.data.computed_price) > Tolerance )
        => discounts' = [ discounts EXCEPT ![last'.existing] =
              [ @ EXCEPT !.computedPrice = last'.data.computed_price,
                         !.discountPct = last'.data.discount_pct,
                         !.expiresAt = last'.data.expires_at ] ] ]_vars

\* C10 happens: an apply updated a record whose price was more than 0.01
\* away, in a store that holds other records.
ApplyUpdatesPriceFractionAndExpiryWitness ==
    /\ last.op = "apply"
    /\ last.stats.updated = 1
    /\ last.existing # 0
    /\ discounts[last.existing].computedPrice = 400240
    /\ discounts[last.existing].mlRecommended = FALSE
    /\ Len(discounts) >= 2

\* The eligible batches all have a product with a positive base price
AllPriceable(bs, today, days_threshold) ==
    \A b \in Eligible(bs, today, days_threshold) :
        bs[b].hasProduct /\ bs[b].basePrice > 0

\* C11: a run that returns, on a store that held no record, with every
\* eligible batch having a product (with a valid base price) and no store
\* call failing, reports errors = 0 and total_processed = the number of
\* eligible batches, and leaves exactly one record per eligible batch and
\* no other record.
RunOnEmptyStoreCoversEligible ==
    [][ ( /\ last'.op = "run" /\ last'.result = "returned"
          /\ discounts = << >>
          /\ last'.wfail = {}
          /\ AllPriceable(batches, now, last'.days_threshold) )
        => LET elig == Eligible(batches, now, last'.days_threshold)
           IN /\ last'.stats.errors = 0
              /\ last'.stats.total_processed = Cardinality(elig)
              /\ Len(discounts') = Cardinality(elig)
              /\ \A b \in elig :
                    Cardinality({ i \in DOMAIN discounts' :
                                    discounts'[i].batchId = b }) = 1 ]_vars

\* C12 as stated: for n eligible batches and chunk_size >= 1, a run that
\* returns reports chunks_processed = ceil(n / chunk_size) and
\* total_processed = n.
RunCountsEveryEligibleBatch ==
    (last.op = "run" /\ last.result = "returned" /\ last.chunk_size >= 1) =>
        LET n == Cardinality(Eligible(batches, now, last.days_threshold))
        IN /\ last.stats.chunks_processed
                = (n + last.chunk_size - 1) \div last.chunk_size
           /\ last.stats.total_processed = n

\* C12 amended: for n eligible batches that all have a product with a
\* positive base price, and chunk_size >= 1, a run that returns reports
\* chunks_processed = ceil(n / chunk_size) and total_processed = n.
RunCountsEveryPriceableBatch ==
    ( /\ last.op = "run" /\ last.result = "returned" /\ last.chunk_size >= 1
      /\ AllPriceable(batches, now, last.days_threshold) ) =>
        LET n == Cardinality(Eligible(batches, now, last.days_threshold))
        IN /\ last.stats.chunks_processed
                = (n + last.chunk_size - 1) \div last.chunk_size
           /\ last.stats.total_processed = n

\* C12 happens: a run over two priceable batches in chunks of one
\* reported two chunks and two batches.
RunCountsEveryPriceableBatchWitness ==
    /\ last.op = "run" /\ last.result = "returned"
    /\ last.chunk_size = 1
    /\ AllPriceable(batches, now, last.days_threshold)
    /\ last.stats.chunks_processed = 2
    /\ last.stats.total_processed = 2

\* The sum of one counter over the chunk jobs
RECURSIVE SumJobs(_, _)
SumJobs(js, counter) ==
    IF js = << >> THEN 0
    ELSE js[1].stats[counter] + SumJobs(Tail(js), counter)

\* The last chunk job of the last spawn has just returned
AllJobsReturned ==
    /\ last.op = "job"
    /\ \A j \in DOMAIN jobs : jobs[j].pc = "done"

\* C13: once every chunk job of a parallel run has returned, whatever the
\* interleaving, the store holds the records the sequential run leaves from
\* the same store and batches (with the same store calls failing), and the
\* summed chunk counters (processed, written, errors) are the sequential
\* run's.
ParallelEqualsSequential ==
    AllJobsReturned =>
        \A o \in seq :
            o.wfail = UNION { jobs[j].wfail : j \in DOMAIN jobs } =>
                /\ StoreView(discounts) = o.store
                /\ SumJobs(jobs, "processed") = o.processed
                /\ SumJobs(jobs, "written") = o.written
                /\ SumJobs(jobs, "errors") = o.errors

\* C14: an invalidate that succeeds sets validTo = now on the record it
\* names and changes nothing else: no record is added, no other field and no
\* other record changes; if the record was the batch's active one the batch
\* has no active record afterwards; and the next apply for that batch, if its
\* store calls succeed, adds a new active record and leaves the invalidated
\* one as it is.
InvalidateOnlyClosesTheRecord ==
    [][ /\ (last'.op = "invalidate" /\ last'.result) =>
              /\ discounts' = [ discounts EXCEPT
                     ![last'.id] = [ discounts[last'.id] EXCEPT !.validTo = now ] ]
              /\ IsActive(discounts[last'.id], now) =>
                     ActiveIds(discounts', discounts[last'.id].batchId, now) = {}
        /\ ( /\ last.op = "invalidate" /\ last.result
             /\ ActiveIds(discounts, discounts[last.id].batchId, now) = {}
             /\ last'.op = "apply" /\ ~last'.failed
             /\ last'.data.batch_id = discounts[last.id].batchId ) =>
              /\ Len(discounts') = Len(discounts) + 1
              /\ \A i \in DOMAIN discounts : discounts'[i] = discounts[i]
              /\ discounts'[Len(discounts')].batchId = last'.data.batch_id
              /\ IsActive(discounts'[Len(discounts')], now)
              /\ last'.stats.created = 1 ]_vars

\* C15: no step of any operation (apply, run, chunk job, compute_single,
\* invalidate, the expiry sweeps) removes a record: every record of the
\* store is still there, under the same id and for the same batch, after
\* the step.
RecordsAreNeverRemoved ==
    [][ /\ Len(discounts') >= Len(discounts)
        /\ \A i \in DOMAIN discounts :
              /\ discounts'[i].id = discounts[i].id
              /\ discounts'[i].batchId = discounts[i].batchId ]_vars

\* C15 happens: a sweep has just run over a store that holds a record it
\* closed, next to a record created later.
RecordsAreNeverRemovedWitness ==
    /\ last.op \in {"expire_old", "cleanup_batches", "cleanup"}
    /\ Len(discounts) >= 2
    /\ \E i \in DOMAIN discounts : discounts[i].validTo = now

\* C16: a record whose validTo is set and not in the future keeps its
\* computedPrice, discountPct and validTo through every later step (run,
\* compute_single, cleanup, invalidate).
HistoricalRecordsAreImmutable ==
    [][ \A i \in DOMAIN discounts :
          (discounts[i].validTo # NULL /\ discounts[i].validTo <= now) =>
              /\ discounts'[i].computedPrice = discounts[i].computedPrice
              /\ discounts'[i].discountPct = discounts[i].discountPct
              /\ discounts'[i].validTo = discounts[i].validTo ]_vars

\* C17: a price computation that runs while reload_rules is loading a
\* document that loads reads either the complete rule set the engine had
\* before the reload or the complete rule set of the document.
ComputeSeesOldOrNewRules ==
    (last.op = "compute" /\ last.reloading /\ last.loadable) =>
        last.seen \in { last.old, last.new }

\* C18: a price computation on the shared engine, while no reload is under
\* way, reads the complete rule set of a document that loads, whatever
\* loads failed before.
ComputeNeverSeesPartialRules ==
    (last.op = "compute" /\ ~last.reloading) => last.seen \in CompleteSets

\* C19: for a positive base price and no min_price override, whatever the
\* days to expiry (negative included), the quantity, the category and the
\* rule document, the price returned is at least base_price times the floor
\* fraction of the category (the category's own if it has one, else the
\* global one).
FloorInvariant ==
    (pin.phase = "priced" /\ pin.base_price > 0 /\ pin.min_price = NULL) =>
        \E floor \in { PriceTimesPercent(pin.base_price,
                          GetPriceFloorMultiplier(LoadRules(pin.config), pin.category)) } :
            /\ pin.out.ok
            /\ \/ pin.out.computed_price > floor
               \/ pin.out.computed_price = floor /\ pin.out.ulp >= 0

DiscountMatchesPrice ==
    (pin.phase = "priced" /\ pin.base_price > 0) =>
        /\ pin.out.ok
        /\ pin.out.discount_pct * (pin.base_price \div 100)
              = (pin.base_price - pin.out.computed_price) * 100

\* C21 happens: a 70% rule matched, the min_price of 10.00 on a base price
\* of 25.00 was binding, and the call returned 10.00 and 60%.
DiscountMatchesPriceWitness ==
    /\ pin.phase = "priced" /\ pin.base_price = 250000 /\ pin.min_price = 100000
    /\ pin.out.reason = "Dairy critical"
    /\ pin.out.computed_price = 100000
    /\ pin.out.discount_pct = 6000

\* C22: for days_to_expiry < 0, whatever the rule document, the category,
\* the quantity and the min_price, the call returns the price
\* base_price * (1 - max_discount), the fraction max_discount and the reason
\* "expired".
ExpiredPathReturnsMaxDiscount ==
    (pin.phase = "priced" /\ pin.expiry_date < 0) =>
        \E max_discount \in { DefaultsGet(LoadRules(pin.config), "max_discount",
                                          DefaultMaxDiscount) } :
            /\ pin.out.ok
            /\ pin.out.computed_price = (pin.base_price \div 100) * (100 - max_discount)
            /\ pin.out.ulp = 0
            /\ pin.out.discount_pct = 100 * max_discount
            /\ pin.out.reason = "expired"

\* No rule of the list compute_batch_price scans for this input matches
NoRuleMatches ==
    \A rule \in { GetRulesForCategory(LoadRules(pin.config), pin.category)[i] :
                    i \in DOMAIN GetRulesForCategory(LoadRules(pin.config), pin.category) } :
        ~Evaluate(rule, pin.expiry_date, pin.quantity)

OverrideThenGeneral(engine, category) ==
    IF HasOverride(engine, category) /\ "rules" \in engine.category_overrides[category].has
    THEN SortByPriority(engine.category_overrides[category].rules) \o engine.rules
    ELSE engine.rules

\* C24: for days_to_expiry >= 0 and a positive base price the rule applied
\* is the first matching rule of the category's override rules followed by
\* the general rules (of the general rules for a category without override
\* rules), so a general rule is applied when no override rule matches.
CategoryFallsBackToGeneral ==
    (pin.phase = "priced" /\ pin.base_price > 0 /\ pin.expiry_date >= 0) =>
        \E rules \in { OverrideThenGeneral(LoadRules(pin.config), pin.category) } :
            \A i \in DOMAIN rules :
                ( /\ Evaluate(rules[i], pin.expiry_date, pin.quantity)
                  /\ \A j \in 1..(i - 1) :
                        ~Evaluate(rules[j], pin.expiry_date, pin.quantity) ) =>
                    pin.out.reason = rules[i].name

\* The rules of the document that compute_batch_price scans for this input,
\* in the order the document gives them
ConfiguredRules ==
    IF /\ pin.category # "" /\ pin.category \in DOMAIN pin.config.category_overrides
       /\ "rules" \in pin.config.category_overrides[pin.category].has
    THEN pin.config.category_overrides[pin.category].rules
    ELSE pin.config.rules

\* The positions in ConfiguredRules of the rules that match this input
MatchingRules ==
    { i \in DOMAIN ConfiguredRules :
        Evaluate(ConfiguredRules[i], pin.expiry_date, pin.quantity) }

\* C25 as stated: for days_to_expiry >= 0 and a positive base price, the
\* rule applied is the matching rule that comes first in the document.
FirstMatchInDocumentOrder ==
    ( /\ pin.phase = "priced" /\ pin.base_price > 0 /\ pin.expiry_date >= 0
      /\ MatchingRules # {} ) =>
        \E i \in MatchingRules :
            /\ \A j \in MatchingRules : i <= j
            /\ pin.out.reason = ConfiguredRules[i].name

\* C25 amended: for days_to_expiry >= 0 and a positive base price, the rule
\* applied is the matching rule of lowest priority number, and among
\* matching rules of that priority the one that comes first in the document.
FirstMatchInPriorityOrder ==
    ( /\ pin.phase = "priced" /\ pin.base_price > 0 /\ pin.expiry_date >= 0
      /\ MatchingRules # {} ) =>
        \E i \in MatchingRules :
            /\ \A j \in MatchingRules :
                  \/ ConfiguredRules[i].priority < ConfiguredRules[j].priority
                  \/ /\ ConfiguredRules[i].priority = ConfiguredRules[j].priority
                     /\ i <= j
            /\ pin.out.reason = ConfiguredRules[i].name

\* C25 happens: the rule of priority 1 was applied although a matching rule
\* of priority 2 comes before it in the document.
FirstMatchInPriorityOrderWitness ==
    /\ pin.phase = "priced" /\ pin.base_price > 0 /\ pin.expiry_date = 0
    /\ MatchingRules = {1, 2}
    /\ ConfiguredRules[1].priority > ConfiguredRules[2].priority
    /\ pin.out.reason = ConfiguredRules[2].name

\* Every bound the condition c configures holds of v
BoundsHold(c, v) ==
    c.present =>
        IF c.exact THEN v = c.eq
        ELSE /\ "lte" \in c.keys => v <= c.lte
             /\ "gte" \in c.keys => v >= c.gte
             /\ "gt" \in c.keys => v > c.gt
             /\ "lt" \in c.keys => v < c.lt

\* C26: evaluate(days_to_expiry, quantity) returns true exactly when every
\* bound configured on days_to_expiry and every bound configured on quantity
\* holds, for negative days_to_expiry as for the others.
EvaluateIsExact ==
    pin.phase = "evaluated" =>
        pin.result = ( /\ BoundsHold(pin.rule.condition.days_to_expiry, pin.days_to_expiry)
                       /\ BoundsHold(pin.rule.condition.quantity, pin.quantity) )

\* C26 happens: a rule bounded on all four sides of days_to_expiry and on
\* quantity was evaluated on a negative days_to_expiry and did not match.
EvaluateIsExactWitness ==
    /\ pin.phase = "evaluated"
    /\ pin.rule.condition.days_to_expiry.keys = {"lte", "gte", "gt", "lt"}
    /\ pin.rule.condition.quantity.present
    /\ pin.days_to_expiry < 0
    /\ ~pin.result

\* C27: a call with base_price <= 0 ends in an error, whatever the days to
\* expiry, the quantity, the category and the rule document; it returns no
\* price.
NonPositiveBasePriceIsRejected ==
    (pin.phase = "priced" /\ pin.base_price <= 0) => ~pin.out.ok

\* C28: while two executions that process the same batch overlap, their
\* find_first, create and update calls interleaved in any way, no batch has
\* two records without an end time.
OverlapKeepsAtMostOneActive ==
    \A i, k \in DOMAIN discounts :
        ( /\ discounts[i].batchId = discounts[k].batchId
          /\ discounts[i].validTo = NULL
          /\ discounts[k].validTo = NULL ) => i = k

\* C29: right after an apply that did not fail, whether it created, updated
\* or wrote nothing, the batch has an active record and the price of every
\* active record of the batch is within a cent of the decision's price.
ApplyLeavesNoDrift ==
    (last.op = "apply" /\ ~last.failed) =>
        /\ ActiveIds(discounts, last.data.batch_id, now) # {}
        /\ \A i \in ActiveIds(discounts, last.data.batch_id, now) :
              Abs(discounts[i].computedPrice - last.data.computed_price) <= Tolerance

\* C29 happens: an apply wrote nothing because the decision was less than a
\* cent away from the stored price, which an earlier apply had updated.
ApplyLeavesNoDriftWitness ==
    /\ last.op = "apply"
    /\ ~last.failed
    /\ last.stats.created = 0
    /\ last.stats.updated = 0
    /\ \E i \in ActiveIds(discounts, last.data.batch_id, now) :
          /\ discounts[i].computedPrice # last.data.computed_price
          /\ discounts[i].computedPrice = 400200

\* The batch of this record has expired: its expiry date is in the past
\* (days_to_expiry < 0)
BatchHasExpired(rec) == batches[rec.batchId].expiryDate - now < 0

\* C30: a cleanup of expired discounts, with no writer at work beside it,
\* closes every open record of the batches whose expiry date is in the
\* past, and leaves alone the records that were closed already and the
\* records of the batches that have not expired.
CleanupClosesOnlyExpiredBatches ==
    [][ last'.op \in {"cleanup", "cleanup_batches"} =>
          /\ DOMAIN discounts' = DOMAIN discounts
          /\ \A i \in DOMAIN discounts :
                IF BatchHasExpired(discounts[i]) /\ discounts[i].validTo = NULL
                THEN discounts'[i] = InvalidatedRecord(discounts[i], now)
                ELSE discounts'[i] = discounts[i] ]_vars

====
